---- MODULE Spec2Model ----
(***************************************************************************)
(* Model of ido_corpus_dumps/extract_ido_from_wikisource.py.               *)
(*                                                                         *)
(* A Python str is a sequence of one-character strings; Python's None is   *)
(* the one-element sequence None, which is no sequence of characters.      *)
(***************************************************************************)
EXTENDS Integers, Sequences, FiniteSets, TLC

VARIABLES
    pc,            \* where the run is: call/returned (is_ido_page alone), start, loop, done, notfound, raised
    dump_exists,   \* whether dump_path.exists()
    output_file,   \* the output_file argument: None, the empty string or a path
    output_format, \* the output_format argument
    count,         \* pages scanned
    ido_count,     \* pages matched
    sink,          \* what the local `out` is bound to: unset, stdout, file
    file_open,     \* the file opened for output_file is open
    file_created,  \* open(output_file, 'w') has created the file
    stdout_closed, \* sys.stdout has been closed
    written,       \* the write() calls made on `out`, in order
    stderr,        \* the lines printed to sys.stderr, in order
    elem,          \* the page element of the last page-boundary event
    title, text, ns, page_id,  \* the fields extracted from elem
    result,        \* what is_ido_page did on its last call
    tree_nodes     \* element objects held under the document root that iterparse builds

vars == <<pc, dump_exists, output_file, output_format, count, ido_count, sink,
          file_open, file_created, stdout_closed, written, stderr, elem,
          title, text, ns, page_id, result, tree_nodes>>

---------------------------------------------------------------------------
(* Strings *)

None == <<"<None>">>

UpperAscii == <<"A", "B", "C", "D", "E", "F", "G", "H", "I", "J", "K", "L", "M", "N", "O", "P", "Q", "R", "S", "T", "U", "V", "W", "X", "Y", "Z">>
LowerAscii == <<"a", "b", "c", "d", "e", "f", "g", "h", "i", "j", "k", "l", "m", "n", "o", "p", "q", "r", "s", "t", "u", "v", "w", "x", "y", "z">>

\* str.lower() on one character
lower_char(c) ==
    IF \E i \in 1..Len(UpperAscii) : UpperAscii[i] = c
    THEN LowerAscii[CHOOSE i \in 1..Len(UpperAscii) : UpperAscii[i] = c]
    ELSE c

\* title.lower()
str_lower(s) == [i \in 1..Len(s) |-> lower_char(s[i])]

\* s[i : i + len(sub)] == sub
MatchAt(sub, s, i) ==
    /\ i + Len(sub) - 1 <= Len(s)
    /\ \A k \in 1..Len(sub) : s[i + k - 1] = sub[k]

\* `sub in s` on two str: scanned from the left
RECURSIVE InFrom(_, _, _)
InFrom(sub, s, i) ==
    IF i + Len(sub) - 1 > Len(s) THEN FALSE
    ELSE IF MatchAt(sub, s, i) THEN TRUE
    ELSE InFrom(sub, s, i + 1)

str_in(sub, s) == InFrom(sub, s, 1)

\* any(m in s for m in markers), markers a list
RECURSIVE AnyInFrom(_, _, _)
AnyInFrom(markers, s, j) ==
    IF j > Len(markers) THEN FALSE
    ELSE IF str_in(markers[j], s) THEN TRUE
    ELSE AnyInFrom(markers, s, j + 1)

any_in(markers, s) == AnyInFrom(markers, s, 1)

\* re.IGNORECASE: two characters match when they are the same letter in either case
SameIgnoringCase(a, b) == lower_char(a) = lower_char(b)

\* the pattern, a literal, matches s at position i under re.IGNORECASE
ReMatchAt(pattern, s, i) ==
    /\ i + Len(pattern) - 1 <= Len(s)
    /\ \A k \in 1..Len(pattern) : SameIgnoringCase(s[i + k - 1], pattern[k])

\* re.search(pattern, s, re.IGNORECASE) is not None, for a pattern that denotes a literal
RECURSIVE ReSearchFrom(_, _, _)
ReSearchFrom(pattern, s, i) ==
    IF i + Len(pattern) - 1 > Len(s) THEN FALSE
    ELSE IF ReMatchAt(pattern, s, i) THEN TRUE
    ELSE ReSearchFrom(pattern, s, i + 1)

re_search_ignorecase(pattern, s) == ReSearchFrom(pattern, s, 1)

---------------------------------------------------------------------------
(* is_ido_page *)

Str0 == <<"0">>

\* ['Ido:', '/Ido', 'Categoria:Id Ido']
ns_markers ==
    << <<"I", "d", "o", ":">>,
       <<"/", "I", "d", "o">>,
       <<"C", "a", "t", "e", "g", "o", "r", "i", "a", ":", "I", "d", " ", "I", "d", "o">> >>

\* ido_indicators: each regular expression is written as the literal it denotes
\* (\| is |, \[ is [, and a brace that opens no repetition is itself)
ido_indicators ==
    << <<"{", "{", "L", "a", "n", "g", "u", "a", "g", "e", "|", "i", "o", "}", "}">>,
       <<"{", "{", "l", "a", "n", "g", "u", "a", "g", "e", "|", "i", "o", "}", "}">>,
       <<"[", "[", "C", "a", "t", "e", "g", "o", "r", "y", ":", "I", "d", " ", "I", "d", "o">>,
       <<"[", "[", "K", "a", "t", "e", "g", "o", "r", "i", "i", ":", "I", "d", " ", "I", "d", "o">>,
       <<"{", "{", "I", "d", "o">>,
       <<"l", "a", "n", "g", "=", "\"", "i", "o", "\"">>,
       <<"l", "a", "n", "g", "=", "'", "i", "o", "'">> >>

\* A plausible slip: 'ido:' where the list has ':ido'.
title_patterns_colon_after ==
    << <<"/", "i", "d", "o">>,
       <<"i", "d", "o", ":">>,
       <<"i", "d", "o", "/">> >>

\* ['/ido', ':ido', 'ido/']
title_patterns ==
    << <<"/", "i", "d", "o">>,
       <<":", "i", "d", "o">>,
       <<"i", "d", "o", "/">> >>

\* for indicator in ido_indicators: if re.search(indicator, text, re.IGNORECASE): return True
RECURSIVE IndicatorLoop(_, _)
IndicatorLoop(t, j) ==
    IF j > Len(ido_indicators) THEN FALSE
    ELSE IF re_search_ignorecase(ido_indicators[j], t) THEN TRUE
    ELSE IndicatorLoop(t, j + 1)

\* A plausible slip: the content scan placed before the namespace check.
is_ido_page_scan_first(t, x, n) ==
    IF x = None THEN "False"
    ELSE IF IndicatorLoop(x, 1) THEN "True"
    ELSE IF n # Str0 /\ t = None THEN "TypeError"
    ELSE IF n # Str0 /\ ~any_in(ns_markers, t) THEN "False"
    ELSE IF t = None THEN "AttributeError"
    ELSE IF any_in(title_patterns, str_lower(t)) THEN "True"
    ELSE "False"

\* is_ido_page(title, text, ns): "True", "False", or the exception it raises
\* (`marker in title` and title.lower() on a title that is None)
is_ido_page(t, x, n) ==
    IF x = None THEN "False"
    ELSE IF n # Str0 /\ t = None THEN "TypeError"
    ELSE IF n # Str0 /\ ~any_in(ns_markers, t) THEN "False"
    ELSE IF IndicatorLoop(x, 1) THEN "True"
    ELSE IF t = None THEN "AttributeError"
    ELSE IF any_in(title_patterns, str_lower(t)) THEN "True"
    ELSE "False"

---------------------------------------------------------------------------
(* The page element that iterparse hands over at a page-boundary event *)

EmptyStr == <<>>

\* elem.find(tag) found nothing
NoElement == [present |-> FALSE, text |-> None]

\* an element with this .text (None for <tag/> and <tag></tag>)
Element(t) == [present |-> TRUE, text |-> t]

\* X_elem.text if X_elem is not None else default
text_or_default(found, default) == IF found.present THEN found.text ELSE default

extract_title(e) == text_or_default(e.title, EmptyStr)
extract_text(e) == text_or_default(e.text, EmptyStr)
extract_ns(e) == text_or_default(e.ns, Str0)
extract_id(e) == text_or_default(e.id, EmptyStr)

\* element objects of a page's subtree: the page, its title, ns and id, and the
\* revision that holds its text
page_nodes(e) ==
    1 + (IF e.title.present THEN 1 ELSE 0) + (IF e.ns.present THEN 1 ELSE 0)
      + (IF e.id.present THEN 1 ELSE 0) + (IF e.text.present THEN 2 ELSE 0)

---------------------------------------------------------------------------
(* Serialization *)

Quote == "\""
Backslash == "\\"
Newline == "\n"

\* json.dumps of one character of a str (ensure_ascii=False)
json_escape_char(c) ==
    IF c = Quote THEN <<Backslash, Quote>>
    ELSE IF c = Backslash THEN <<Backslash, Backslash>>
    ELSE IF c = Newline THEN <<Backslash, "n">>
    ELSE <<c>>

RECURSIVE json_escape(_)
json_escape(s) ==
    IF s = <<>> THEN <<>> ELSE json_escape_char(Head(s)) \o json_escape(Tail(s))

\* json.dumps of a str or None
json_value(v) ==
    IF v = None THEN <<"n", "u", "l", "l">>
    ELSE <<Quote>> \o json_escape(v) \o <<Quote>>

json_key(k) == <<Quote>> \o k \o <<Quote, ":", " ">>

KeyId == <<"i", "d">>
KeyTitle == <<"t", "i", "t", "l", "e">>
KeyNamespace == <<"n", "a", "m", "e", "s", "p", "a", "c", "e">>
KeyText == <<"t", "e", "x", "t">>

\* json.dumps({'id': page_id, 'title': title, 'namespace': ns, 'text': text}, ensure_ascii=False)
json_dumps_page(i, t, n, x) ==
    <<"{">> \o json_key(KeyId) \o json_value(i) \o <<",", " ">>
            \o json_key(KeyTitle) \o json_value(t) \o <<",", " ">>
            \o json_key(KeyNamespace) \o json_value(n) \o <<",", " ">>
            \o json_key(KeyText) \o json_value(x) \o <<"}">>

\* str(v) inside an f-string
format_str(v) == IF v = None THEN <<"N", "o", "n", "e">> ELSE v

Equals80 == [k \in 1..80 |-> "="]

\* the write() calls made for one matched page
page_writes(fmt, i, t, n, x) ==
    IF fmt = "json"
    THEN << json_dumps_page(i, t, n, x) \o <<Newline>> >>
    ELSE << <<"=", "=", "=", " ">> \o format_str(t) \o <<" ", "=", "=", "=", Newline>>,
            x,
            <<Newline, Newline>> \o Equals80 \o <<Newline, Newline>> >>
---------------------------------------------------------------------------
(* extract_ido_pages *)

MatchProgressEvery == 10
ScanProgressEvery == 10000

Line(kind, a, b) == [kind |-> kind, a |-> a, b |-> b]

ErrorLine == Line("Error: File not found", 0, 0)
ProcessingLine == Line("Processing dump", 0, 0)
WaitLine == Line("This may take several minutes...", 0, 0)
FoundLine(m, c) == Line("Found m Ido pages (scanned c total pages)", m, c)
ScannedLine(c, m) == Line("Scanned c pages, found m Ido pages", c, m)
DoneLine(c) == Line("Done! Scanned c total pages", c, 0)
TotalLine(m) == Line("Found m Ido pages", m, 0)

\* `if output_file:` -- None and '' are false
truthy(f) == f # None /\ f # EmptyStr

\* A plausible slip: `out.close()` without the test.
finally_close_always(f, sk, fo, sc) ==
    [file_open |-> IF sk = "file" THEN FALSE ELSE fo,
     stdout_closed |-> IF sk = "stdout" THEN TRUE ELSE sc]

\* finally: if output_file and out != sys.stdout: out.close()
finally_close(f, sk, fo, sc) ==
    [file_open |-> IF truthy(f) /\ sk # "stdout" THEN FALSE ELSE fo,
     stdout_closed |-> sc]

\* A plausible slip: ido_count incremented for every page.
matched_after_every_page(r, m) == m + 1

\* if is_ido_page(...): ido_count += 1
matched_after(r, m) == IF r = "True" THEN m + 1 ELSE m

\* A plausible slip: the match-progress test placed outside the `if is_ido_page` block.
progress_lines_unindented(r, c, m) ==
    (IF m % MatchProgressEvery = 0 THEN <<FoundLine(m, c)>> ELSE <<>>)
    \o (IF c % ScanProgressEvery = 0 THEN <<ScannedLine(c, m)>> ELSE <<>>)

\* the lines one page prints: r is what is_ido_page returned, c and m the counts
\* after the page
progress_lines(r, c, m) ==
    (IF r = "True" /\ m % MatchProgressEvery = 0 THEN <<FoundLine(m, c)>> ELSE <<>>)
    \o (IF c % ScanProgressEvery = 0 THEN <<ScannedLine(c, m)>> ELSE <<>>)

\* A plausible slip: the record written before the test.
writes_for_unconditional(r, fmt, i, t, n, x) == page_writes(fmt, i, t, n, x)

\* what one page writes to `out`
writes_for(r, fmt, i, t, n, x) ==
    IF r = "True" THEN page_writes(fmt, i, t, n, x) ELSE <<>>

Raises(r) == r \in {"TypeError", "AttributeError"}

NoPage == [title |-> NoElement, text |-> NoElement, ns |-> NoElement, id |-> NoElement]

PipelineInit ==
    /\ pc = "start"
    /\ dump_exists \in BOOLEAN
    /\ output_file \in {None, EmptyStr, <<"o">>}
    /\ output_format \in {"json", "txt"}
    /\ count = 0
    /\ ido_count = 0
    /\ sink = "unset"
    /\ file_open = FALSE
    /\ file_created = FALSE
    /\ stdout_closed = FALSE
    /\ written = <<>>
    /\ stderr = <<>>
    /\ elem = NoPage
    /\ title = None /\ text = None /\ ns = None /\ page_id = None
    /\ result = "none"
    /\ tree_nodes = 0

\* A plausible slip: the output opened before the existence test.
NotFoundAfterOpen ==
    /\ pc = "start"
    /\ ~dump_exists
    /\ stderr' = Append(stderr, ErrorLine)
    /\ sink' = IF truthy(output_file) THEN "file" ELSE "stdout"
    /\ file_open' = truthy(output_file)
    /\ file_created' = truthy(output_file)
    /\ pc' = "notfound"
    /\ UNCHANGED <<dump_exists, output_file, output_format, count, ido_count,
                   stdout_closed, written, elem, title, text, ns, page_id, result, tree_nodes>>

\* lines 70-73: the dump does not exist
NotFound ==
    /\ pc = "start"
    /\ ~dump_exists
    /\ stderr' = Append(stderr, ErrorLine)
    /\ pc' = "notfound"
    /\ UNCHANGED <<dump_exists, output_file, output_format, count, ido_count, sink,
                   file_open, file_created, stdout_closed, written, elem,
                   title, text, ns, page_id, result, tree_nodes>>

\* lines 75-90: the two opening lines, the counters, the output, the parser
Begin ==
    /\ pc = "start"
    /\ dump_exists
    /\ stderr' = stderr \o <<ProcessingLine, WaitLine>>
    /\ count' = 0
    /\ ido_count' = 0
    /\ sink' = IF truthy(output_file) THEN "file" ELSE "stdout"
    /\ file_open' = truthy(output_file)
    /\ file_created' = truthy(output_file)
    /\ pc' = "loop"
    /\ UNCHANGED <<dump_exists, output_file, output_format, stdout_closed, written,
                   elem, title, text, ns, page_id, result, tree_nodes>>

\* lines 92-134: one 'end' event of an element whose tag ends with 'page' (the
\* 'end' events of other elements fall through the `if` and change nothing)
PageEnd(e) ==
    /\ pc = "loop"
    /\ LET t == extract_title(e)
           x == extract_text(e)
           n == extract_ns(e)
           i == extract_id(e)
           r == is_ido_page(t, x, n)
           c == count + 1
           m == matched_after(r, ido_count)
           closed == finally_close(output_file, sink, file_open, stdout_closed)
       IN /\ count' = c
          /\ elem' = e
          /\ title' = t /\ text' = x /\ ns' = n /\ page_id' = i
          /\ result' = r
          /\ IF Raises(r)
             THEN \* the exception leaves the loop through `finally`; elem.clear() is not reached
                  /\ pc' = "raised"
                  /\ file_open' = closed.file_open
                  /\ stdout_closed' = closed.stdout_closed
                  /\ tree_nodes' = tree_nodes + page_nodes(e)
                  /\ UNCHANGED <<ido_count, written, stderr>>
             ELSE /\ pc' = "loop"
                  /\ ido_count' = m
                  /\ written' = written \o writes_for(r, output_format, i, t, n, x)
                  /\ stderr' = stderr \o progress_lines(r, c, m)
                  \* elem.clear(): the emptied page element stays attached to the root
                  /\ tree_nodes' = tree_nodes + 1
                  /\ UNCHANGED <<file_open, stdout_closed>>
    /\ UNCHANGED <<dump_exists, output_file, output_format, sink, file_created>>

\* bz2 or the parser raises on the next read
Malformed ==
    /\ pc = "loop"
    /\ LET closed == finally_close(output_file, sink, file_open, stdout_closed)
       IN /\ file_open' = closed.file_open
          /\ stdout_closed' = closed.stdout_closed
    /\ pc' = "raised"
    /\ UNCHANGED <<dump_exists, output_file, output_format, count, ido_count, sink,
                   file_created, written, stderr, elem, title, text, ns, page_id,
                   result, tree_nodes>>

\* lines 136-141: the stream is exhausted
Finish ==
    /\ pc = "loop"
    /\ stderr' = stderr \o <<DoneLine(count), TotalLine(ido_count)>>
    /\ LET closed == finally_close(output_file, sink, file_open, stdout_closed)
       IN /\ file_open' = closed.file_open
          /\ stdout_closed' = closed.stdout_closed
    /\ pc' = "done"
    /\ UNCHANGED <<dump_exists, output_file, output_format, count, ido_count, sink,
                   file_created, written, elem, title, text, ns, page_id,
                   result, tree_nodes>>

---------------------------------------------------------------------------
(* Archives *)

MaxPages == 3
LongRunPages == 10001
LongRunMatches == 11

TitleIdo == <<"a", "/", "I", "d", "o">>
TextLangIo == <<"l", "a", "n", "g", "=", "\"", "i", "o", "\"">>
TextPlain == <<"t">>
Str14 == <<"1", "4">>
Id7 == <<"7">>

Page(t, x, n, i) == [title |-> t, text |-> x, ns |-> n, id |-> i]

\* <page><title>a/Ido</title><ns>0</ns><id>7</id><revision><text>lang="io"</text></revision></page>
BasePage == Page(Element(TitleIdo), Element(TextLangIo), Element(Str0), Element(Id7))

\* a page that matches nothing
PlainPage == Page(NoElement, Element(TextPlain), Element(Str0), Element(Id7))

\* BasePage with one field absent, without text, or with another text; and the
\* pages on which the namespace check and the title fallback meet a title
\* that is missing or None
Pages ==
    {BasePage, PlainPage}
    \cup {[BasePage EXCEPT !.title = f] : f \in {NoElement, Element(None)}}
    \cup {[BasePage EXCEPT !.text = f] : f \in {NoElement, Element(None), Element(TextPlain)}}
    \cup {[BasePage EXCEPT !.ns = f] : f \in {NoElement, Element(None), Element(Str14)}}
    \cup {[BasePage EXCEPT !.id = f] : f \in {NoElement, Element(None)}}
    \cup {Page(NoElement, Element(TextLangIo), Element(Str14), Element(Id7)),
          Page(Element(None), Element(TextLangIo), Element(Str14), Element(Id7)),
          Page(Element(None), Element(TextPlain), Element(Str0), Element(Id7))}

LongPages == {BasePage, PlainPage}

Next ==
    \/ NotFound
    \/ Begin
    \/ \E e \in Pages : count < MaxPages /\ PageEnd(e)
    \/ Malformed
    \/ Finish

Spec == PipelineInit /\ [][Next]_vars

\* a long archive of two kinds of page, read to standard output; its matching
\* pages are among the first LongRunMatches pages or at page ScanProgressEvery
LongInit ==
    /\ PipelineInit
    /\ dump_exists
    /\ output_file = None

LongNext ==
    \/ Begin
    \/ \E e \in LongPages :
          /\ count < LongRunPages
          /\ (e = BasePage =>
                /\ ido_count < LongRunMatches
                /\ (count < LongRunMatches \/ count + 1 = ScanProgressEvery))
          /\ PageEnd(e)
    \/ Malformed
    \/ Finish

SpecLong == LongInit /\ [][LongNext]_vars

---------------------------------------------------------------------------
(* is_ido_page called on its own *)

MaxPad == 1

Pad(k) == [j \in 1..k |-> "x"]

Padded(cores) == {Pad(a) \o c \o Pad(b) : c \in cores, a \in 0..MaxPad, b \in 0..MaxPad}

IdoHello == <<"I", "d", "o", ":", "H", "e", "l", "l", "o">>
SomeText == <<"s", "o", "m", "e", " ", "t", "e", "x", "t">>
Str4 == <<"4">>

TitleCores ==
    { IdoHello,
      <<"I", "d", "o", ":">>,
      <<"I", "D", "O", ":">>,
      <<"/", "I", "d", "o">>,
      <<"C", "a", "t", "e", "g", "o", "r", "i", "a", ":", "I", "d", " ", "I", "d", "o">>,
      <<"c", "a", "t", "e", "g", "o", "r", "i", "a", ":", "i", "d", " ", "i", "d", "o">>,
      <<"/", "i", "d", "o">>,
      <<":", "I", "D", "O">>,
      <<"i", "d", "o", "/">>,
      <<"I", "d", "o">>,
      <<"E", "x", "a", "m", "p", "l", "e">>,
      <<"R", "a", "n", "d", "o", "m">>,
      <<>> }

TextCores ==
    { SomeText,
      <<"{", "{", "L", "a", "n", "g", "u", "a", "g", "e", "|", "i", "o", "}", "}">>,
      <<"{", "{", "L", "A", "N", "G", "U", "A", "G", "E", "|", "I", "O", "}", "}">>,
      <<"[", "[", "c", "a", "t", "e", "g", "o", "r", "y", ":", "i", "d", " ", "i", "d", "o">>,
      <<"[", "[", "K", "a", "t", "e", "g", "o", "r", "i", "i", ":", "I", "d", " ", "I", "d", "o">>,
      <<"{", "{", "I", "d", "o", "}", "}", " ", "c", "o", "n", "t", "e", "n", "t">>,
      <<"{", "{", "i", "d", "o">>,
      <<"l", "a", "n", "g", "=", "\"", "i", "o", "\"">>,
      <<"L", "A", "N", "G", "=", "'", "I", "O", "'">>,
      <<"{", "{", "I", "d">>,
      <<"l", "a", "n", "g", "=", "i", "o">>,
      <<"L", "a", "n", "g", "u", "a", "g", "e", "|", "i", "o", "}", "}">>,
      <<"[", "C", "a", "t", "e", "g", "o", "r", "y", ":", "I", "d", " ", "I", "d", "o">>,
      <<"p", "l", "a", "i", "n">>,
      <<>> }

Titles == Padded(TitleCores)
Texts == Padded(TextCores) \cup {None}
Namespaces == {Str0, Str14, Str4}

ClassifierInit ==
    /\ pc = "call"
    /\ title \in Titles
    /\ text \in Texts
    /\ ns \in Namespaces
    /\ result = "none"
    /\ dump_exists = FALSE
    /\ output_file = None
    /\ output_format = "json"
    /\ count = 0
    /\ ido_count = 0
    /\ sink = "unset"
    /\ file_open = FALSE
    /\ file_created = FALSE
    /\ stdout_closed = FALSE
    /\ written = <<>>
    /\ stderr = <<>>
    /\ elem = NoPage
    /\ page_id = None
    /\ tree_nodes = 0

\* one call of is_ido_page(title, text, ns)
Classify ==
    /\ pc = "call"
    /\ result' = is_ido_page(title, text, ns)
    /\ pc' = "returned"
    /\ UNCHANGED <<dump_exists, output_file, output_format, count, ido_count, sink,
                   file_open, file_created, stdout_closed, written, stderr, elem,
                   title, text, ns, page_id, tree_nodes>>

ClassifierNext == Classify

SpecClassifier == ClassifierInit /\ [][ClassifierNext]_vars

---------------------------------------------------------------------------
(* Properties of is_ido_page *)

\* sub occurs in s
Occurs(sub, s) ==
    \E i \in 1..(Len(s) - Len(sub) + 1) : SubSeq(s, i, i + Len(sub) - 1) = sub

\* lit occurs in s when letter case is ignored
OccursIgnoringCase(lit, s) == Occurs(str_lower(lit), str_lower(s))

QualifyingSubstrings ==
    { <<"I", "d", "o", ":">>,
      <<"/", "I", "d", "o">>,
      <<"C", "a", "t", "e", "g", "o", "r", "i", "a", ":", "I", "d", " ", "I", "d", "o">> }

ContentIndicators ==
    { <<"{", "{", "L", "a", "n", "g", "u", "a", "g", "e", "|", "i", "o", "}", "}">>,
      <<"[", "[", "C", "a", "t", "e", "g", "o", "r", "y", ":", "I", "d", " ", "I", "d", "o">>,
      <<"[", "[", "K", "a", "t", "e", "g", "o", "r", "i", "i", ":", "I", "d", " ", "I", "d", "o">>,
      <<"{", "{", "I", "d", "o">>,
      <<"l", "a", "n", "g", "=", "\"", "i", "o", "\"">>,
      <<"l", "a", "n", "g", "=", "'", "i", "o", "'">> }

FallbackSubstrings ==
    { <<"/", "i", "d", "o">>, <<":", "i", "d", "o">>, <<"i", "d", "o", "/">> }

GateRejects(t, n) == n # <<"0">> /\ \A q \in QualifyingSubstrings : ~Occurs(q, t)
HasIndicator(x) == \E c \in ContentIndicators : OccursIgnoringCase(c, x)
HasFallback(t) == \E f \in FallbackSubstrings : Occurs(f, str_lower(t))

\* the five-step decision procedure
Decision(t, x, n) ==
    IF x = None THEN "False"
    ELSE IF GateRejects(t, n) THEN "False"
    ELSE IF HasIndicator(x) THEN "True"
    ELSE IF HasFallback(t) THEN "True"
    ELSE "False"

\* C1: for every title (a string), text (a string or null) and namespace (a
\* string), is_ido_page returns what the five-step decision procedure gives:
\* false on a null text; else false when the namespace is not "0" and the title
\* holds none of 'Ido:', '/Ido', 'Categoria:Id Ido'; else true when the text holds
\* a content indicator, case ignored; else true when the lower-cased title holds
\* one of '/ido', ':ido', 'ido/'; else false.
C1_FiveStepDecision ==
    pc = "returned" => result = Decision(title, text, ns)

\* C1 witness: a call that the namespace gate rejects although the text holds a
\* content indicator.
C1_GateRejectsIndicatorText ==
    /\ pc = "returned"
    /\ text # None
    /\ GateRejects(title, ns)
    /\ HasIndicator(text)
    /\ result = "False"

IsIdoHelloCall ==
    /\ pc = "returned"
    /\ title = IdoHello
    /\ text = SomeText
    /\ ns = Str14

\* C2 as stated: is_ido_page("Ido:Hello", "some text", "14") returns true, by the
\* title fallback on "ido:hello".
C2_IdoHelloMatches ==
    IsIdoHelloCall => result = "True"

\* C2 as amended: is_ido_page("Ido:Hello", "some text", "14") returns false: the
\* namespace gate passes by 'Ido:', no content indicator matches, and the
\* lower-cased title "ido:hello" holds none of '/ido', ':ido', 'ido/'.
C2_IdoHelloDoesNotMatch ==
    IsIdoHelloCall =>
        /\ result = "False"
        /\ Occurs(<<"I", "d", "o", ":">>, title)
        /\ ~GateRejects(title, ns)
        /\ ~HasIndicator(text)
        /\ str_lower(title) = <<"i", "d", "o", ":", "h", "e", "l", "l", "o">>
        /\ ~HasFallback(title)

\* C2 witness: the call has returned false.
C2_IdoHelloReturned ==
    IsIdoHelloCall /\ result = "False"

---------------------------------------------------------------------------
(* Reading a line of JSON back *)

ParseFail == [ok |-> FALSE, v |-> <<>>, next |-> 0]

\* the string whose opening quote is before s[i]; acc is what has been read of it
RECURSIVE ParseString(_, _, _)
ParseString(s, i, acc) ==
    IF i > Len(s) THEN ParseFail
    ELSE IF s[i] = "\"" THEN [ok |-> TRUE, v |-> acc, next |-> i + 1]
    ELSE IF s[i] = "\\"
         THEN IF i + 1 > Len(s) THEN ParseFail
              ELSE IF s[i + 1] = "n" THEN ParseString(s, i + 2, Append(acc, "\n"))
              ELSE IF s[i + 1] \in {"\"", "\\"} THEN ParseString(s, i + 2, Append(acc, s[i + 1]))
              ELSE ParseFail
    ELSE IF s[i] = "\n" THEN ParseFail
    ELSE ParseString(s, i + 1, Append(acc, s[i]))

\* a value, a string or null, that starts at s[i]
ParseValue(s, i) ==
    IF i > Len(s) THEN ParseFail
    ELSE IF s[i] = "\"" THEN ParseString(s, i + 1, <<>>)
    ELSE IF i + 3 <= Len(s) /\ SubSeq(s, i, i + 3) = <<"n", "u", "l", "l">>
         THEN [ok |-> TRUE, v |-> None, next |-> i + 4]
    ELSE ParseFail

\* the members "key": value, ... } that start at s[i]; acc is the <<key, value>> read
RECURSIVE ParseMembers(_, _, _)
ParseMembers(s, i, acc) ==
    IF i > Len(s) \/ s[i] # "\"" THEN ParseFail
    ELSE LET k == ParseString(s, i + 1, <<>>)
         IN IF ~k.ok \/ k.next + 1 > Len(s) \/ s[k.next] # ":" \/ s[k.next + 1] # " "
            THEN ParseFail
            ELSE LET val == ParseValue(s, k.next + 2)
                 IN IF ~val.ok \/ val.next > Len(s) THEN ParseFail
                    ELSE IF s[val.next] = "}"
                         THEN [ok |-> TRUE, v |-> Append(acc, <<k.v, val.v>>), next |-> val.next + 1]
                    ELSE IF s[val.next] = "," /\ val.next + 1 <= Len(s) /\ s[val.next + 1] = " "
                         THEN ParseMembers(s, val.next + 2, Append(acc, <<k.v, val.v>>))
                    ELSE ParseFail

\* the members of the object that a line (its newline included) holds
LoadsLine(line) ==
    IF Len(line) < 3 \/ line[1] # "{" \/ line[Len(line)] # "\n" THEN ParseFail
    ELSE LET r == ParseMembers(line, 2, <<>>)
         IN IF r.ok /\ r.next = Len(line) THEN r ELSE ParseFail

---------------------------------------------------------------------------
(* Properties of extract_ido_pages *)

\* a page-boundary event has been handled: elem is that page, as it was delivered
PageHandled == count > 0

\* C3: at a page-boundary event the fields handed to is_ido_page are the page's
\* title, text, ns and id, an absent title taken as the empty string, an absent
\* text as null, an absent ns as "0" and an absent id as the empty string; so a
\* page without a text element is never classified as a match.
C3_AbsentTextIsNull ==
    PageHandled =>
        /\ title = (IF elem.title.present THEN elem.title.text ELSE <<>>)
        /\ text = (IF elem.text.present THEN elem.text.text ELSE None)
        /\ ns = (IF elem.ns.present THEN elem.ns.text ELSE <<"0">>)
        /\ page_id = (IF elem.id.present THEN elem.id.text ELSE <<>>)
        /\ (~elem.text.present => result # "True")

\* C4: whatever fields of a well-formed page are absent, without text or with
\* text, the title and the namespace handed to is_ido_page are not null and the
\* page is processed without an error.
C4_TitleAndNamespaceNonNull ==
    PageHandled =>
        /\ title # None
        /\ ns # None
        /\ result \in {"True", "False"}

\* the write() calls the last step added
NewWrites == SubSeq(written', Len(written) + 1, Len(written'))

\* C5: the records written are, after any prefix of the pages, those of the pages
\* of the prefix for which is_ido_page returned true, in archive order and once
\* each: nothing is written before the first page, every step keeps what was
\* written, a page that matched adds its one record and any other step adds
\* nothing. In json format the record is a line that reads back as the four keys
\* id, title, namespace, text with the values extracted from the page.
C5_WritesExactlyTheMatches ==
    /\ written = <<>>
    /\ [][ /\ Len(written') >= Len(written)
           /\ SubSeq(written', 1, Len(written)) = written
           /\ IF count' = count + 1 /\ is_ido_page(title', text', ns') = "True"
              THEN IF output_format = "json"
                   THEN /\ Len(NewWrites) = 1
                        /\ LoadsLine(NewWrites[1]).ok
                        /\ LoadsLine(NewWrites[1]).v =
                             << <<KeyId, page_id'>>, <<KeyTitle, title'>>,
                                <<KeyNamespace, ns'>>, <<KeyText, text'>> >>
                   ELSE /\ Len(NewWrites) = 3
                        /\ NewWrites[2] = text'
              ELSE written' = written ]_vars

\* C5 witness: three pages read in json format, two of them written, with
\* different records.
C5_TwoOfThreeWritten ==
    /\ output_format = "json"
    /\ pc = "loop"
    /\ count = 3
    /\ Len(written) = 2
    /\ written[1] # written[2]
    /\ result = "False"

SummaryKinds == {DoneLine(0).kind, TotalLine(0).kind}

\* C6: when the input path does not exist the error is reported on stderr and
\* the run ends there: the output is never opened or created, nothing is
\* written, both counters stay zero, no page is handled and no progress or
\* summary line is printed.
C6_NotFoundDoesNothing ==
    ~dump_exists =>
        /\ pc \in {"start", "notfound"}
        /\ stderr = (IF pc = "notfound" THEN <<ErrorLine>> ELSE <<>>)
        /\ sink = "unset"
        /\ ~file_open
        /\ ~file_created
        /\ ~stdout_closed
        /\ written = <<>>
        /\ count = 0
        /\ ido_count = 0
        /\ elem = NoPage
        /\ (pc = "notfound" => ~ENABLED Next)

\* C6 witness: the run has ended on a missing dump, with an output file asked for.
C6_NotFoundWithOutputFile ==
    /\ pc = "notfound"
    /\ ~dump_exists
    /\ truthy(output_file)

\* C7: a run that reaches the end of the stream ends with the summary, the
\* scanned total and then the matched total, as the last lines of stderr, and no
\* summary is printed before that; the output is open while pages are read and
\* closed afterwards exactly when it is a file; standard output is never closed;
\* an opened file is closed on every way out, a failure of bz2 or of the parser
\* included.
C7_SummaryThenClose ==
    /\ ~stdout_closed
    /\ (pc = "done" =>
          /\ Len(stderr) >= 2
          /\ stderr[Len(stderr) - 1] = DoneLine(count)
          /\ stderr[Len(stderr)] = TotalLine(ido_count)
          /\ \A j \in 1..(Len(stderr) - 2) : stderr[j].kind \notin SummaryKinds)
    /\ (pc # "done" => \A j \in 1..Len(stderr) : stderr[j].kind \notin SummaryKinds)
    /\ (pc = "loop" => (file_open <=> sink = "file"))
    /\ (sink = "file" <=> truthy(output_file) /\ pc \in {"loop", "done", "raised"})
    /\ (pc \in {"done", "raised"} => ~file_open)
    /\ (file_open => file_created)

\* C7 witness: a run over some pages has ended, its output file closed.
C7_DoneWithFileClosed ==
    /\ pc = "done"
    /\ sink = "file"
    /\ file_created
    /\ ~file_open
    /\ count > 0

PageNodesMax == page_nodes(BasePage)

\* C8: while pages are read, the element objects the parser's tree holds are no
\* more than one page's: what is kept does not grow with the pages already read.
C8_TreeBoundedByOnePage ==
    pc = "loop" => tree_nodes <= PageNodesMax

\* the lines the last step printed
NewLines == SubSeq(stderr', Len(stderr) + 1, Len(stderr'))

\* C9: a page prints a match-progress line exactly when it matched and the
\* matched count, that page included, is a multiple of 10, and a scan-progress
\* line exactly when the scanned count, that page included, is a multiple of
\* 10,000, matched or not; both report the two counts as they then are; a page
\* prints nothing else.
C9_ProgressLines ==
    [][ (pc = "loop" /\ pc' = "loop") =>
          /\ SubSeq(stderr', 1, Len(stderr)) = stderr
          /\ (\E j \in 1..Len(NewLines) : NewLines[j].kind = FoundLine(0, 0).kind)
                <=> (result' = "True" /\ ido_count' % 10 = 0)
          /\ (\E j \in 1..Len(NewLines) : NewLines[j].kind = ScannedLine(0, 0).kind)
                <=> (count' % 10000 = 0)
          /\ \A j \in 1..Len(NewLines) :
                NewLines[j] \in {FoundLine(ido_count', count'), ScannedLine(count', ido_count')}
          /\ Len(NewLines) <= 2
          /\ (Len(NewLines) = 2 => NewLines[1] # NewLines[2]) ]_vars

\* C9 witness: page 10,000 is the tenth match and has printed both lines.
C9_BothLinesAtOnce ==
    /\ pc = "loop"
    /\ count = 10000
    /\ ido_count = 10
    /\ result = "True"
    /\ Len(stderr) = 4
    /\ stderr[3] = FoundLine(10, 10000)
    /\ stderr[4] = ScannedLine(10000, 10)

\* the records written: a line each in json format, three writes each in txt
RecordsWritten == IF output_format = "json" THEN Len(written) ELSE Len(written) \div 3

\* C10: 0 <= matched <= scanned always; neither counter decreases; a page adds
\* exactly 1 to scanned, and 1 to matched if is_ido_page returned true for it
\* and 0 otherwise; no other step changes them; so scanned is the number of pages
\* consumed and matched the number of records written.
C10_Counters ==
    /\ [](/\ 0 <= ido_count
          /\ ido_count <= count
          /\ ido_count = RecordsWritten
          /\ (pc \in {"loop", "done"} => count = tree_nodes))
    /\ [][ /\ count' >= count
           /\ ido_count' >= ido_count
           /\ IF elem' # elem \/ tree_nodes' # tree_nodes
              THEN /\ count' = count + 1
                   /\ ido_count' = ido_count
                        + (IF is_ido_page(title', text', ns') = "True" THEN 1 ELSE 0)
              ELSE count' = count /\ ido_count' = ido_count ]_vars

\* C10 witness: three pages read, one of them matched.
C10_ThreeScannedOneMatched ==
    /\ count = 3
    /\ ido_count = 1
    /\ RecordsWritten = 1

====
